---- MODULE Spec2Model ----
(***************************************************************************)
(* Model of src/src/add_to_s3.py: the pipeline that reads fraud incidents  *)
(* from a DynamoDB table, merges them into one time window per CIK,        *)
(* resolves each window to 10-K documents through the SEC query API, marks *)
(* the incidents scraped, and archives the extracted sections in S3.       *)
(*                                                                         *)
(* One behaviour is a sequence of runs of the script (__main__) against    *)
(* the same table, query service and bucket.  Every external call may      *)
(* raise; the script catches nothing, so a raise ends the run.             *)
(***************************************************************************)
EXTENDS Integers, Sequences, FiniteSets, TLC

VARIABLES
    table,              \* the DynamoDB table: its items, in scan order
    pageSize,           \* how many items the store returns per scan page
    filingsDb,          \* the query service: cik -> its answer to get_filings
    archive,            \* the S3 bucket: set of [key, body]
    origTable,          \* the table before the first run (never changes)
    run,                \* number of the current run of the script
    history,            \* outcome of every earlier run, in order
    pc,                 \* position of the current run
    err,                \* the exception that ended the run ("" while none)
    response,           \* get_from_dynamo: the last scan response
    items,              \* get_from_dynamo: the items accumulated so far
    fraud_company_info, \* __main__: what get_from_dynamo returned
    i,                  \* __main__: index of the next info of the for loop
    time_ranges,        \* __main__: the windows, in dict insertion order
    urls,               \* get_10k_urls: the ResolvedFilings found so far
    k,                  \* get_10k_urls: index of the current window (key)
    u,                  \* update_status_dynamo: index of the next url
    a,                  \* add_10k_info: index of the next url_object
    puts,               \* keys written by put_object in the current run
    marks,              \* update_item calls of the current run: window and key
    environ,            \* os.environ: the configuration variables that are set
    calls               \* calls of the external services in the current run

vars == <<table, pageSize, filingsDb, archive, origTable, run, history, pc, err,
          response, items, fraud_company_info, i, time_ranges, urls, k, u, a,
          puts, marks, environ, calls>>

(***************************************************************************)
(* Bounds of the model.                                                    *)
(***************************************************************************)
\* Longest table whose items vary in their attributes.
MaxItems == 2

\* Longest table whose items vary in their key and company.
MaxIdItems == 3

MaxRuns == 2

(***************************************************************************)
(* Input values.                                                           *)
(***************************************************************************)
Min2(x, y) == IF x < y THEN x ELSE y

Ciks == {"X", "Y", "Z", "W", "V"}

Years == {2018, 2019}

\* The keys (company_name, url) of the table, in a fixed order.
Keys == <<[company_name |-> "A", url |-> "u1"], [company_name |-> "A", url |-> "u2"],
          [company_name |-> "B", url |-> "u1"], [company_name |-> "B", url |-> "u2"]>>

\* contains_21c, the scraped attribute ("absent" when the item has none)
\* and month_end (month_start is 1): eligible, too short when the years are
\* equal, no 21(c), already scraped, scraped present and false.
Gates == {<<TRUE, "absent", 7>>, <<TRUE, "absent", 6>>, <<FALSE, "absent", 7>>,
          <<TRUE, "true", 7>>, <<TRUE, "false", 7>>}

Incident(key, cik, ys, ye, gate) ==
    [company_name |-> key.company_name, url |-> key.url, full |-> TRUE,
     cik |-> cik, year_start |-> ys, year_end |-> ye,
     month_start |-> 1, month_end |-> gate[3],
     contains_21c |-> gate[1],
     has_scraped |-> gate[2] # "absent", scraped |-> gate[2] = "true"]

\* Incidents of one company (cik Y) with every combination of years and gate.
AttrIncidents(key) ==
    {Incident(key, "Y", ys, ye, g) : ys \in Years, ye \in Years, g \in Gates}

\* Eligible incidents (2018-2019) of every company, under every key.
IdIncidents ==
    {Incident(Keys[n], c, 2018, 2019, <<TRUE, "absent", 7>>) :
        n \in 1..Len(Keys), c \in Ciks}

KeyOf(item) == [company_name |-> item.company_name, url |-> item.url]

DistinctKeys(t) ==
    \A m, n \in 1..Len(t) : m # n => KeyOf(t[m]) # KeyOf(t[n])

SeqsUpTo(S, n) == UNION {[1..m -> S] : m \in 0..n}

\* The tables the first run may start from: the primary key (company_name,
\* url) is unique.  Either the attributes vary and the keys are the first
\* keys of Keys, or the keys and companies vary and the attributes are those
\* of an eligible incident.
AttrTables ==
    UNION {{t \in [1..m -> UNION {AttrIncidents(Keys[n]) : n \in 1..m}] :
               \A n \in 1..m : KeyOf(t[n]) = Keys[n]} :
           m \in 0..Min2(MaxItems, Len(Keys))}

IdTables == {t \in SeqsUpTo(IdIncidents, MaxIdItems) : DistinctKeys(t)}

Tables == AttrTables \cup IdTables

(***************************************************************************)
(* The SEC query service.  filedAt is a string: a sequence of characters.  *)
(***************************************************************************)
FiledAt2018 == <<"2", "0", "1", "8", "-", "0", "6", "-", "3", "0">>

FiledAt2019a == <<"2", "0", "1", "9", "-", "0", "3", "-", "0", "1">>

FiledAt2019b == <<"2", "0", "1", "9", "-", "1", "1", "-", "1", "5">>

Doc(type, url) == [type |-> type, documentUrl |-> url]

FilingA == [filedAt |-> FiledAt2019a,
            documentFormatFiles |-> <<Doc("EX-21", "a1"), Doc("10-k", "a2"), Doc("10-K", "a3")>>]

FilingB == [filedAt |-> FiledAt2018, documentFormatFiles |-> <<Doc("10-K", "b1")>>]

FilingC == [filedAt |-> FiledAt2019a, documentFormatFiles |-> <<Doc("EX-21", "c1")>>]

FilingD == [filedAt |-> FiledAt2019b, documentFormatFiles |-> <<Doc("10-K", "d1")>>]

\* What get_filings answers: a dict with or without the key "filings".
Response(fs) == [has_filings |-> TRUE, filings |-> fs]

NoFilingsKey == [has_filings |-> FALSE, filings |-> <<>>]

\* The answers of the service, one per company: X has several filings with a
\* 10-K, Y one filing with two 10-K documents, Z filings without any 10-K
\* document, W no filing, and the answer for V has no key "filings".
FilingsDb ==
    [c \in Ciks |-> CASE c = "X" -> Response(<<FilingC, FilingB, FilingA, FilingD>>)
                      [] c = "Y" -> Response(<<FilingA>>)
                      [] c = "Z" -> Response(<<FilingC>>)
                      [] c = "W" -> Response(<<>>)
                      [] OTHER -> NoFilingsKey]

(***************************************************************************)
(* get_from_dynamo (lines 27-45).                                          *)
(***************************************************************************)
\* table.scan: the page after the first `start` items.  The response carries
\* LastEvaluatedKey exactly when items remain after the page.
Scan(tbl, size, start) ==
    LET end == Min2(start + size, Len(tbl))
    IN  [Items |-> SubSeq(tbl, start + 1, end),
         has_LastEvaluatedKey |-> end < Len(tbl),
         LastEvaluatedKey |-> end]

\* The names bound in get_from_dynamo's scope when line 42 is evaluated, and
\* the name line 42 reads for the continuation token.
BoundNames == {"table", "response", "items"}

TokenName == "resposne"

(***************************************************************************)
(* __main__, lines 160-178: the eligibility filter and the merge.          *)
(***************************************************************************)
\* line 161: ("scraped" in info and info["scraped"]) or ... or not contains_21c
SkipFirst(info) ==
    \/ (info.has_scraped /\ info.scraped)
    \/ info.year_start > info.year_end
    \/ ~info.contains_21c

SkipShortInclusive(info) ==
    info.year_start = info.year_end /\ info.month_end - info.month_start <= 6

\* line 163
SkipShort(info) ==
    info.year_start = info.year_end /\ info.month_end - info.month_start < 6

Skipped(info) == SkipFirst(info) \/ SkipShort(info)

\* Position of cik among the keys of the dict, 0 when it is no key.
IndexOfCik(tr, cik) ==
    IF \E n \in 1..Len(tr) : tr[n].cik = cik
    THEN CHOOSE n \in 1..Len(tr) : tr[n].cik = cik
    ELSE 0

\* lines 167-172
NewWindow(info) ==
    [cik |-> info.cik, start_year |-> info.year_start, end_year |-> info.year_end,
     company_name |-> info.company_name, urls |-> <<info.url>>]

MergeWindowMaxEnd(w, info) ==
    [w EXCEPT !.urls = Append(w.urls, info.url),
              !.start_year = IF w.start_year > info.year_start
                             THEN info.year_start ELSE w.start_year,
              !.end_year = IF w.end_year < info.year_end
                           THEN info.year_end ELSE w.end_year]

MergeWindowMaxStart(w, info) ==
    [w EXCEPT !.urls = Append(w.urls, info.url),
              !.start_year = IF w.start_year < info.year_start
                             THEN info.year_start ELSE w.start_year,
              !.end_year = IF w.end_year > info.year_end
                           THEN info.year_end ELSE w.end_year]

\* lines 174-178
MergeWindow(w, info) ==
    [w EXCEPT !.urls = Append(w.urls, info.url),
              !.start_year = IF w.start_year > info.year_start
                             THEN info.year_start ELSE w.start_year,
              !.end_year = IF w.end_year > info.year_end
                           THEN info.year_end ELSE w.end_year]

\* One iteration of the for loop of lines 160-178.
AggregateOne(tr, info) ==
    IF Skipped(info) THEN tr
    ELSE LET n == IndexOfCik(tr, info.cik)
         IN  IF n = 0 THEN Append(tr, NewWindow(info))
             ELSE [tr EXCEPT ![n] = MergeWindow(tr[n], info)]

(***************************************************************************)
(* update_status_dynamo (lines 48-69) and get_10k_urls (lines 72-118).     *)
(***************************************************************************)
\* table.update_item(Key, "set scraped = :s"): DynamoDB edits the item with
\* that key, or adds an item holding the key and the attribute when the
\* table has none.
UpdateItem(tbl, name, url) ==
    IF \E n \in 1..Len(tbl) : KeyOf(tbl[n]) = [company_name |-> name, url |-> url]
    THEN [n \in 1..Len(tbl) |->
            IF KeyOf(tbl[n]) = [company_name |-> name, url |-> url]
            THEN [tbl[n] EXCEPT !.has_scraped = TRUE, !.scraped = TRUE]
            ELSE tbl[n]]
    ELSE Append(tbl, [company_name |-> name, url |-> url, full |-> FALSE,
                      has_scraped |-> TRUE, scraped |-> TRUE])

\* str.lower() on the document types of the model.
Lower(t) ==
    CASE t = "10-K" -> "10-k"
      [] t = "EX-21" -> "ex-21"
      [] OTHER -> t

FirstTenKCaseSensitive(docs) ==
    IF \E d \in 1..Len(docs) : docs[d].type = "10-K"
    THEN CHOOSE d \in 1..Len(docs) :
            /\ docs[d].type = "10-K"
            /\ \A e \in 1..(d - 1) : docs[e].type # "10-K"
    ELSE 0

\* lines 101-111: position of the document the inner loop breaks at, 0 when
\* the loop ends without a break.
FirstTenK(docs) ==
    IF \E d \in 1..Len(docs) : Lower(docs[d].type) = "10-k"
    THEN CHOOSE d \in 1..Len(docs) :
            /\ Lower(docs[d].type) = "10-k"
            /\ \A e \in 1..(d - 1) : Lower(docs[e].type) # "10-k"
    ELSE 0

\* filing["filedAt"][:4]
YearOf(filedAt) == SubSeq(filedAt, 1, Min2(4, Len(filedAt)))

\* lines 103-109
ResolvedFiling(filing, d, key) ==
    [url |-> filing.documentFormatFiles[d].documentUrl, cik |-> key,
     year |-> YearOf(filing.filedAt)]

\* The loops without the break of line 111: every 10-K document is appended.
RECURSIVE FilingsLoopNoBreak(_, _, _)
FilingsLoopNoBreak(fs, n, key) ==
    IF n = 0 THEN <<>>
    ELSE LET docs == fs[n].documentFormatFiles
             hits == SelectSeq([d \in 1..Len(docs) |-> d],
                               LAMBDA d : Lower(docs[d].type) = "10-k")
         IN  FilingsLoopNoBreak(fs, n - 1, key)
                \o [m \in 1..Len(hits) |-> ResolvedFiling(fs[n], hits[m], key)]

\* lines 100-111: what the loop over the first n filings appends to urls.
RECURSIVE FilingsLoop(_, _, _)
FilingsLoop(fs, n, key) ==
    IF n = 0 THEN <<>>
    ELSE LET d == FirstTenK(fs[n].documentFormatFiles)
         IN  IF d = 0 THEN FilingsLoop(fs, n - 1, key)
             ELSE Append(FilingsLoop(fs, n - 1, key), ResolvedFiling(fs[n], d, key))

\* lines 98-111 for one key: what is appended to urls.
Resolved(filings, key) ==
    IF filings.has_filings /\ Len(filings.filings) > 0
    THEN FilingsLoop(filings.filings, Len(filings.filings), key)
    ELSE <<>>

FoundAnyFiling(filings, key) == filings.has_filings /\ Len(filings.filings) > 0

\* line 98, 110, 112: found
Found(filings, key) == Resolved(filings, key) # <<>>

(***************************************************************************)
(* add_10k_info (lines 121-142) and add_to_s3 (lines 10-24).               *)
(***************************************************************************)
\* extractor_api.get_section(url, section, "text"): the text of the section.
GetSection(url, section) == <<"text", url, section>>

\* lines 134-140: the item and its pickle.
Item(url_object) ==
    [url |-> url_object.url,
     s1A |-> GetSection(url_object.url, "1A"),
     s7 |-> GetSection(url_object.url, "7"),
     s7A |-> GetSection(url_object.url, "7A")]

Pickle(item) == [pickled |-> item]

\* "fraudulent/{}/{}.pkl".format(cik, year)
ItemKey(url_object) ==
    <<"fraudulent", "/", url_object.cik, "/">> \o url_object.year \o <<".pkl">>

\* bucket.put_object(Key, Body): the object under Key is replaced.
PutObject(bucket, key, body) ==
    {o \in bucket : o.Key # key} \cup {[Key |-> key, Body |-> body]}

(***************************************************************************)
(* The runs of the script.                                                 *)
(***************************************************************************)
\* lines 148, 150, 151, 155: the variables os.environ is asked for.
Required == {"DYNAMO_TABLE", "SEC_API_KEY", "S3_BUCKET"}

\* A missing variable is modelled for the tables of one item.
Environs(tbl) == IF Len(tbl) = 1 THEN SUBSET Required ELSE {Required}

ConfigCompleteLazyBucket(e) == {"DYNAMO_TABLE", "SEC_API_KEY"} \subseteq e

\* lines 146-155 raise KeyError at the first variable that is not set.
ConfigComplete(e) == Required \subseteq e

\* A call of an external service, for the company it is made for ("" for a
\* scan, which is for none).
Call(op, cik) == [op |-> op, cik |-> cik]

NoResponse == [Items |-> <<>>, has_LastEvaluatedKey |-> FALSE, LastEvaluatedKey |-> 0]

Init ==
    /\ table \in Tables
    /\ pageSize \in (IF table = <<>> THEN {1} ELSE 1..Len(table))
    /\ filingsDb = FilingsDb
    /\ archive = {}
    /\ origTable = table
    /\ run = 1
    /\ history = <<>>
    /\ environ \in Environs(table)
    /\ calls = <<>>
    /\ pc = "init"
    /\ err = ""
    /\ response = NoResponse
    /\ items = <<>>
    /\ fraud_company_info = <<>>
    /\ i = 1
    /\ time_ranges = <<>>
    /\ urls = <<>>
    /\ k = 1
    /\ u = 1
    /\ a = 1
    /\ puts = <<>>
    /\ marks = <<>>

env == <<pageSize, filingsDb, origTable, run, history, environ>>

\* An exception nothing catches: the run ends where it is.
Raise(e) ==
    /\ pc' = "aborted"
    /\ err' = e
    /\ UNCHANGED <<table, archive, env, response, items, fraud_company_info, i,
                   time_ranges, urls, k, u, a, puts, marks>>

\* lines 146-155: the resources are built from os.environ; line 158 calls
\* get_from_dynamo.
InitResources ==
    /\ pc = "init"
    /\ IF ConfigComplete(environ)
       THEN /\ pc' = "scan"
            /\ UNCHANGED <<table, archive, env, err, response, items, fraud_company_info,
                           i, time_ranges, urls, k, u, a, puts, marks, calls>>
       ELSE Raise("KeyError") /\ UNCHANGED calls

\* lines 39-41 and 45: the first scan; the loop is entered when the response
\* has a LastEvaluatedKey, else items is returned (line 158).
ScanFirst ==
    /\ pc = "scan"
    /\ response' = Scan(table, pageSize, 0)
    /\ items' = response'.Items
    /\ IF response'.has_LastEvaluatedKey
       THEN pc' = "paginate" /\ UNCHANGED fraud_company_info
       ELSE pc' = "aggregate" /\ fraud_company_info' = items'
    /\ calls' = Append(calls, Call("scan", ""))
    /\ UNCHANGED <<table, archive, env, err, i, time_ranges, urls, k, u, a, puts, marks>>

\* lines 42-43: the argument of the scan reads TokenName; a name that is not
\* bound raises NameError before the scan is called.
Paginate ==
    /\ pc = "paginate"
    /\ IF TokenName \in BoundNames
       THEN /\ response' = Scan(table, pageSize, response.LastEvaluatedKey)
            /\ items' = items \o response'.Items
            /\ IF response'.has_LastEvaluatedKey
               THEN pc' = "paginate" /\ UNCHANGED fraud_company_info
               ELSE pc' = "aggregate" /\ fraud_company_info' = items'
            /\ calls' = Append(calls, Call("scan", ""))
            /\ UNCHANGED <<table, archive, env, err, i, time_ranges, urls, k, u, a,
                           puts, marks>>
       ELSE Raise("NameError") /\ UNCHANGED calls

\* table.scan raises (the store is unreachable).
FailScan ==
    /\ pc = "scan" \/ (pc = "paginate" /\ TokenName \in BoundNames)
    /\ Raise("scan")
    /\ calls' = Append(calls, Call("scan", ""))

\* lines 160-178: one iteration of the for loop over fraud_company_info.
Aggregate ==
    /\ pc = "aggregate"
    /\ i <= Len(fraud_company_info)
    /\ time_ranges' = AggregateOne(time_ranges, fraud_company_info[i])
    /\ i' = i + 1
    /\ UNCHANGED <<table, archive, env, pc, err, response, items, fraud_company_info,
                   urls, k, u, a, puts, marks, calls>>

\* line 180: the loop is over, get_10k_urls is called.
AggregateDone ==
    /\ pc = "aggregate"
    /\ i > Len(fraud_company_info)
    /\ pc' = "resolve"
    /\ k' = 1
    /\ urls' = <<>>
    /\ UNCHANGED <<table, archive, env, err, response, items, fraud_company_info, i,
                   time_ranges, u, a, puts, marks, calls>>

\* lines 84-116 up to the call of update_status_dynamo: the query of one key
\* and the loops over its filings.
Query ==
    /\ pc = "resolve"
    /\ k <= Len(time_ranges)
    /\ LET key == time_ranges[k].cik
           filings == filingsDb[key]
       IN  /\ urls' = urls \o Resolved(filings, key)
           /\ IF Found(filings, key)
              THEN pc' = "update" /\ u' = 1 /\ UNCHANGED k
              ELSE k' = k + 1 /\ UNCHANGED <<pc, u>>
           /\ calls' = Append(calls, Call("get_filings", key))
    /\ UNCHANGED <<table, archive, env, err, response, items, fraud_company_info, i,
                   time_ranges, a, puts, marks>>

\* query_api.get_filings raises.
FailQuery ==
    /\ pc = "resolve"
    /\ k <= Len(time_ranges)
    /\ Raise("get_filings")
    /\ calls' = Append(calls, Call("get_filings", time_ranges[k].cik))

\* lines 56-67: one iteration of the for loop of update_status_dynamo, called
\* at line 113 with items[key]["company_name"] and items[key]["urls"].
Update ==
    /\ pc = "update"
    /\ LET w == time_ranges[k]
       IN  /\ table' = UpdateItem(table, w.company_name, w.urls[u])
           /\ marks' = Append(marks, [cik |-> w.cik, company_name |-> w.company_name,
                                      url |-> w.urls[u]])
           /\ IF u < Len(w.urls)
              THEN u' = u + 1 /\ UNCHANGED <<pc, k>>
              ELSE pc' = "resolve" /\ k' = k + 1 /\ UNCHANGED u
           /\ calls' = Append(calls, Call("update_item", w.cik))
    /\ UNCHANGED <<archive, env, err, response, items, fraud_company_info, i,
                   time_ranges, urls, a, puts>>

\* table.update_item raises.
FailUpdate ==
    /\ pc = "update"
    /\ Raise("update_item")
    /\ calls' = Append(calls, Call("update_item", time_ranges[k].cik))

\* lines 118 and 181: urls is returned and add_10k_info is called.
ResolveDone ==
    /\ pc = "resolve"
    /\ k > Len(time_ranges)
    /\ pc' = "archive"
    /\ a' = 1
    /\ UNCHANGED <<table, archive, env, err, response, items, fraud_company_info, i,
                   time_ranges, urls, k, u, puts, marks, calls>>

\* lines 136-138: the first n calls of get_section for one url_object.
SectionCalls(cik, n) == [m \in 1..n |-> Call("get_section", cik)]

\* lines 132-142: one iteration of the for loop of add_10k_info.
Archive ==
    /\ pc = "archive"
    /\ a <= Len(urls)
    /\ archive' = PutObject(archive, ItemKey(urls[a]), Pickle(Item(urls[a])))
    /\ puts' = Append(puts, ItemKey(urls[a]))
    /\ a' = a + 1
    /\ calls' = calls \o SectionCalls(urls[a].cik, 3)
                    \o <<Call("put_object", urls[a].cik)>>
    /\ UNCHANGED <<table, env, pc, err, response, items, fraud_company_info, i,
                   time_ranges, urls, k, u, marks>>

\* extractor_api.get_section raises.
FailExtract ==
    /\ pc = "archive"
    /\ a <= Len(urls)
    /\ Raise("get_section")
    /\ \E n \in 1..3 : calls' = calls \o SectionCalls(urls[a].cik, n)

\* bucket.put_object raises.
FailPut ==
    /\ pc = "archive"
    /\ a <= Len(urls)
    /\ Raise("put_object")
    /\ calls' = calls \o SectionCalls(urls[a].cik, 3)
                    \o <<Call("put_object", urls[a].cik)>>

\* add_10k_info returns: the script ends.
ArchiveDone ==
    /\ pc = "archive"
    /\ a > Len(urls)
    /\ pc' = "done"
    /\ UNCHANGED <<table, archive, env, err, response, items, fraud_company_info, i,
                   time_ranges, urls, k, u, a, puts, marks, calls>>

\* The script is run again, against the table and the bucket as they are.
Rerun ==
    /\ pc \in {"done", "aborted"}
    /\ run < MaxRuns
    /\ run' = run + 1
    /\ history' = Append(history, IF pc = "done" THEN "ok"
                                   ELSE IF err \in {"NameError", "KeyError"} THEN "crashed"
                                   ELSE "failed")
    /\ pc' = "init"
    /\ err' = ""
    /\ calls' = <<>>
    /\ response' = NoResponse
    /\ items' = <<>>
    /\ fraud_company_info' = <<>>
    /\ i' = 1
    /\ time_ranges' = <<>>
    /\ urls' = <<>>
    /\ k' = 1
    /\ u' = 1
    /\ a' = 1
    /\ puts' = <<>>
    /\ marks' = <<>>
    /\ UNCHANGED <<table, archive, pageSize, filingsDb, origTable, environ>>

\* The steps of one run of the script.
RunNext ==
    \/ InitResources
    \/ ScanFirst
    \/ Paginate
    \/ FailScan
    \/ Aggregate
    \/ AggregateDone
    \/ Query
    \/ FailQuery
    \/ Update
    \/ FailUpdate
    \/ ResolveDone
    \/ Archive
    \/ FailExtract
    \/ FailPut
    \/ ArchiveDone

Next == RunNext \/ Rerun

\* Runs of the script, one after the other.
Spec == Init /\ [][Next]_vars

\* One run of the script.
RunSpec == Init /\ [][RunNext]_vars

(***************************************************************************)
(* C1.  get_from_dynamo returns the concatenation of all pages.            *)
(***************************************************************************)
\* The pages of the store from `start` on, concatenated in the order the
\* continuation tokens give.
RECURSIVE AllPages(_, _, _)
AllPages(tbl, size, start) ==
    LET r == Scan(tbl, size, start)
    IN  IF r.has_LastEvaluatedKey
        THEN r.Items \o AllPages(tbl, size, r.LastEvaluatedKey)
        ELSE r.Items

\* C1: for a store of any number n >= 1 of pages, whenever get_from_dynamo
\* ends while the store is reachable, it has returned the concatenation of
\* all n pages in the order received.
C1_FetchAllConcatenates ==
    (pc = "aggregate" \/ (pc = "aborted" /\ err = "NameError"))
        => (pc = "aggregate" /\ fraud_company_info = AllPages(table, pageSize, 0))

(***************************************************************************)
(* C2, C3.  The eligibility filter and the merge of the windows.           *)
(***************************************************************************)
\* The exclusions as the specification lists them.
Excluded(info) ==
    \/ (info.has_scraped /\ info.scraped)
    \/ info.year_start > info.year_end
    \/ info.contains_21c = FALSE
    \/ (info.year_start = info.year_end /\ (info.month_end - info.month_start) < 6)

\* The records among the first n of infos that are not excluded and belong
\* to company c.
Contributing(infos, n, c) ==
    {j \in 1..n : ~Excluded(infos[j]) /\ infos[j].cik = c}

WindowsOf(tr, c) == {n \in 1..Len(tr) : tr[n].cik = c}

\* C2: in the aggregation loop, after any number of records has been
\* processed, a record has contributed to the window of its company (its URL
\* is in the window, its years have entered the merge) if and only if it is
\* not scraped, its start year is not after its end year, it has the 21(c)
\* flag, and it does not span less than 6 months of one year.
C2_EligibilityFilter ==
    pc = "aggregate" =>
    \A c \in Ciks :
        LET J == Contributing(fraud_company_info, i - 1, c)
        IN  IF J = {} THEN WindowsOf(time_ranges, c) = {}
            ELSE \E n \in WindowsOf(time_ranges, c) :
                    LET w == time_ranges[n]
                    IN  /\ Len(w.urls) = Cardinality(J)
                        /\ {w.urls[m] : m \in 1..Len(w.urls)}
                              = {fraud_company_info[j].url : j \in J}
                        /\ \A j \in J : /\ w.start_year <= fraud_company_info[j].year_start
                                        /\ w.end_year <= fraud_company_info[j].year_end

\* A record excluded for each reason has been passed over and a later record
\* has contributed.
C2_Witness ==
    /\ pc = "aggregate"
    /\ i = 3
    /\ fraud_company_info[1].year_start = fraud_company_info[1].year_end
    /\ fraud_company_info[1].month_end - fraud_company_info[1].month_start = 5
    /\ fraud_company_info[2].year_start = fraud_company_info[2].year_end
    /\ fraud_company_info[2].month_end - fraud_company_info[2].month_start = 6
    /\ Len(time_ranges) = 1
    /\ time_ranges[1].urls = <<fraud_company_info[2].url>>

MinOf(S) == CHOOSE x \in S : \A y \in S : x <= y

\* The URLs of the records of company c among the first n that are not
\* excluded, in input order.
RECURSIVE UrlsInOrder(_, _, _)
UrlsInOrder(infos, n, c) ==
    IF n = 0 THEN <<>>
    ELSE IF n \in Contributing(infos, n, c)
         THEN Append(UrlsInOrder(infos, n - 1, c), infos[n].url)
         ELSE UrlsInOrder(infos, n - 1, c)

\* C3: in the aggregation loop, after any number of records has been
\* processed, the window of a company has the minimum of the contributing
\* start years, the minimum of the contributing end years and the
\* contributing URLs in input order, duplicates kept; there is exactly one
\* window per company that has an eligible record, and none for any other.
C3_MergeRule ==
    pc = "aggregate" =>
    \A c \in Ciks :
        LET J == Contributing(fraud_company_info, i - 1, c)
        IN  /\ Cardinality(WindowsOf(time_ranges, c)) = (IF J = {} THEN 0 ELSE 1)
            /\ \A n \in WindowsOf(time_ranges, c) :
                  /\ time_ranges[n].start_year
                        = MinOf({fraud_company_info[j].year_start : j \in J})
                  /\ time_ranges[n].end_year
                        = MinOf({fraud_company_info[j].year_end : j \in J})
                  /\ time_ranges[n].urls = UrlsInOrder(fraud_company_info, i - 1, c)

\* Two eligible records of one company have been merged, the second with the
\* earlier end year: line 178 has lowered the end year of the window.
C3_Witness ==
    /\ pc = "aggregate"
    /\ i = 3
    /\ Len(time_ranges) = 1
    /\ Len(time_ranges[1].urls) = 2
    /\ fraud_company_info[1].year_end > fraud_company_info[2].year_end
    /\ time_ranges[1].end_year = fraud_company_info[2].year_end

(***************************************************************************)
(* C4.  How many ResolvedFilings a window yields.                          *)
(***************************************************************************)
ResolvedFor(c) == {j \in 1..Len(urls) : urls[j].cik = c}

\* The filings of an answer that hold a document typed 10-K, in any case.
TenKFilings(filings) ==
    {f \in 1..Len(filings.filings) :
        \E d \in 1..Len(filings.filings[f].documentFormatFiles) :
            Lower(filings.filings[f].documentFormatFiles[d].type) = "10-k"}

C5_SecondRunWritesNothing ==
    (run = 2 /\ history = <<"ok">>) => puts = <<>>

\* The state a run without any failure ends in, composed of the steps of the
\* script: get_from_dynamo, the aggregation loop, get_10k_urls with
\* update_status_dynamo, add_10k_info.
RECURSIVE AggregateAll(_, _)
AggregateAll(infos, n) ==
    IF n = 0 THEN <<>> ELSE AggregateOne(AggregateAll(infos, n - 1), infos[n])

RECURSIVE UpdateAll(_, _, _, _)
UpdateAll(tbl, name, us, n) ==
    IF n = 0 THEN tbl ELSE UpdateItem(UpdateAll(tbl, name, us, n - 1), name, us[n])

RECURSIVE ResolveAll(_, _, _, _)
ResolveAll(tbl, db, tr, n) ==
    IF n = 0 THEN [table |-> tbl, urls |-> <<>>]
    ELSE LET before == ResolveAll(tbl, db, tr, n - 1)
             w == tr[n]
         IN  [table |-> IF Found(db[w.cik], w.cik)
                        THEN UpdateAll(before.table, w.company_name, w.urls, Len(w.urls))
                        ELSE before.table,
              urls |-> before.urls \o Resolved(db[w.cik], w.cik)]

RECURSIVE ArchiveAll(_, _, _)
ArchiveAll(bucket, us, n) ==
    IF n = 0 THEN bucket
    ELSE PutObject(ArchiveAll(bucket, us, n - 1), ItemKey(us[n]), Pickle(Item(us[n])))

FailureFreeRun(tbl, size, db, bucket) ==
    IF Scan(tbl, size, 0).has_LastEvaluatedKey /\ TokenName \notin BoundNames
    THEN [table |-> tbl, archive |-> bucket]
    ELSE LET tr == AggregateAll(tbl, Len(tbl))
             r == ResolveAll(tbl, db, tr, Len(tr))
         IN  [table |-> r.table, archive |-> ArchiveAll(bucket, r.urls, Len(r.urls))]

ItemsOf(tbl) == {tbl[n] : n \in 1..Len(tbl)}

\* C6: when the first run is ended by the failure of an external call and the
\* script is then run again without failure, the table and the archive end
\* as one run without failure would have left them.
C6_RerunConverges ==
    (run = 2 /\ history = <<"failed">> /\ pc = "done")
        => LET final == FailureFreeRun(origTable, pageSize, filingsDb, {})
           IN  /\ ItemsOf(table) = ItemsOf(final.table)
               /\ archive = final.archive

\* A first run that meets no failure ends as FailureFreeRun says.
FirstRunEndsAsFailureFree ==
    (run = 1 /\ pc = "done")
        => LET final == FailureFreeRun(origTable, pageSize, filingsDb, {})
           IN  table = final.table /\ archive = final.archive

(***************************************************************************)
(* C7 - C10.  What get_10k_urls and add_10k_info do per window and filing. *)
(***************************************************************************)
\* What holds of every window whose answer has no filing, or no document
\* typed 10-K: nothing is resolved for it, no update_item call is made for it
\* and each incident that contributed to it is still unscraped in the table.
NotFoundLeftAlone ==
    \A n \in 1..Len(time_ranges) :
        LET c == time_ranges[n].cik
        IN  TenKFilings(filingsDb[c]) = {}
              => /\ ResolvedFor(c) = {}
                 /\ \A m \in 1..Len(marks) : marks[m].cik # c
                 /\ \A j \in Contributing(fraud_company_info, Len(fraud_company_info), c) :
                       \E m \in 1..Len(table) :
                           /\ KeyOf(table[m]) = KeyOf(fraud_company_info[j])
                           /\ ~table[m].scraped

\* C7: for every window whose query returns no filing, or no document typed
\* 10-K, the resolver produces no ResolvedFiling, makes no update_item call
\* for it, leaves its incidents unmarked in the table, and the step that
\* queries it goes on to the next window without error.
C7_NotFoundContinues ==
    [][/\ (/\ pc = "resolve"
           /\ k <= Len(time_ranges)
           /\ err' # "get_filings"
           /\ TenKFilings(filingsDb[time_ranges[k].cik]) = {})
             => /\ urls' = urls
                /\ marks' = marks
                /\ table' = table
                /\ pc' = "resolve"
                /\ err' = ""
                /\ k' = k + 1
       /\ NotFoundLeftAlone']_vars

\* C8: once the resolution of a window with a matching 10-K is complete,
\* every stored incident that contributed to the window has scraped = true.
C8_ContributorsMarked ==
    \A n \in 1..Len(time_ranges) :
        (n < k /\ Found(filingsDb[time_ranges[n].cik], time_ranges[n].cik))
            => \A j \in Contributing(fraud_company_info, Len(fraud_company_info),
                                     time_ranges[n].cik) :
                  \E m \in 1..Len(table) :
                      /\ KeyOf(table[m]) = KeyOf(fraud_company_info[j])
                      /\ table[m].has_scraped /\ table[m].scraped

\* C9: when get_filings fails for one window, every other window that has a
\* match still yields its ResolvedFiling and its update_item calls.
C9_QueryFailureIsLocal ==
    (pc \in {"done", "aborted"} /\ err = "get_filings")
        => \A n \in 1..Len(time_ranges) :
              (n # k /\ Found(filingsDb[time_ranges[n].cik], time_ranges[n].cik))
                  => /\ ResolvedFor(time_ranges[n].cik) # {}
                     /\ \E m \in 1..Len(marks) : marks[m].cik = time_ranges[n].cik

\* C10: when extraction or the archive write fails for one ResolvedFiling,
\* every other ResolvedFiling of the sequence is still written to the
\* archive.
C10_ArchiveFailureIsLocal ==
    (pc \in {"done", "aborted"} /\ err \in {"get_section", "put_object"})
        => \A j \in 1..Len(urls) :
              j # a => \E m \in 1..Len(puts) : puts[m] = ItemKey(urls[j])

(***************************************************************************)
(* Failure of a flag update, and the shape of the windows.                 *)
(***************************************************************************)
\* The key of the m-th update_item call of the run.
MarkedKey(m) == [company_name |-> marks[m].company_name, url |-> marks[m].url]

\* C11: when one update_item of update_status_dynamo fails, the run does not
\* fail: every window is still queried, every ResolvedFiling is still
\* archived, and the updates made before the failure stay in the table.
C11_UpdateFailureTolerated ==
    (pc \in {"done", "aborted"} /\ err = "update_item")
        => /\ \A n \in 1..Len(time_ranges) :
                 \E m \in 1..Len(calls) :
                     calls[m] = Call("get_filings", time_ranges[n].cik)
           /\ \A j \in 1..Len(urls) :
                 \E m \in 1..Len(puts) : puts[m] = ItemKey(urls[j])
           /\ \A m \in 1..Len(marks) :
                 \E n \in 1..Len(table) :
                     /\ KeyOf(table[n]) = MarkedKey(m)
                     /\ table[n].has_scraped /\ table[n].scraped

\* C12: after any number of records has been aggregated, every window has
\* start_year <= end_year and at least one url, and update_status_dynamo is
\* only ever called for a window that has a url.
C12_WindowsWellFormed ==
    /\ \A n \in 1..Len(time_ranges) :
          /\ time_ranges[n].start_year <= time_ranges[n].end_year
          /\ Len(time_ranges[n].urls) >= 1
    /\ pc = "update" => u \in 1..Len(time_ranges[k].urls)

\* A window merged from a later record and an earlier one, being marked.
C12_Witness ==
    /\ pc = "update"
    /\ Len(time_ranges[k].urls) = 2
    /\ \E m, n \in 1..Len(fraud_company_info) :
          /\ m < n
          /\ fraud_company_info[m].cik = time_ranges[k].cik
          /\ fraud_company_info[n].cik = time_ranges[k].cik
          /\ fraud_company_info[m].year_start > fraud_company_info[n].year_end
    /\ time_ranges[k].start_year = time_ranges[k].end_year

(***************************************************************************)
(* C13.  Which document a ResolvedFiling is.                               *)
(***************************************************************************)
\* The ResolvedFilings of company c, in the order of urls.
UrlsFor(c) == SelectSeq(urls, LAMBDA x : x.cik = c)

\* The window of company c has been queried in this run.
Queried(c) ==
    \E n \in 1..Len(time_ranges) :
        /\ time_ranges[n].cik = c
        /\ n < k \/ (n = k /\ (pc = "update" \/ err = "update_item"))

IsTenK(doc) == doc.type \in {"10-K", "10-k"}

FirstFour(str) == <<str[1], str[2], str[3], str[4]>>

\* The first document typed 10-K of a filing that has one.
FirstTenKDoc(filing) ==
    LET docs == filing.documentFormatFiles
        d == CHOOSE e \in 1..Len(docs) :
                 IsTenK(docs[e]) /\ \A g \in 1..(e - 1) : ~IsTenK(docs[g])
    IN  docs[d]

ExpectedFor(c) ==
    LET fs == filingsDb[c].filings
        hits == SelectSeq([f \in 1..Len(fs) |-> f],
                          LAMBDA f : \E d \in 1..Len(fs[f].documentFormatFiles) :
                                        IsTenK(fs[f].documentFormatFiles[d]))
    IN  [m \in 1..Len(hits) |-> [url  |-> FirstTenKDoc(fs[hits[m]]).documentUrl,
                                 cik  |-> c,
                                 year |-> FirstFour(fs[hits[m]].filedAt)]]

RECURSIVE PagesFrom(_, _, _)
PagesFrom(tbl, size, start) ==
    LET r == Scan(tbl, size, start)
    IN  IF r.has_LastEvaluatedKey
        THEN 1 + PagesFrom(tbl, size, r.LastEvaluatedKey)
        ELSE 1

ScanCalls == SelectSeq(calls, LAMBDA c : c.op = "scan")

\* C14: for a store of any finite number of pages, get_from_dynamo ends
\* having made exactly one scan per page, the last of them being the first
\* one whose response has no LastEvaluatedKey.
C14_OneScanPerPage ==
    (pc = "aggregate" \/ (pc = "aborted" /\ err = "NameError"))
        => /\ Len(ScanCalls) = PagesFrom(table, pageSize, 0)
           /\ ~response.has_LastEvaluatedKey

(***************************************************************************)
(* C15.  A configuration variable that is not set.                         *)
(***************************************************************************)
ConfigAbsent ==
    \E v \in {"DYNAMO_TABLE", "SEC_API_KEY", "S3_BUCKET"} : v \notin environ

\* C15: when the table name, the API key or the bucket name is not set, the
\* run fails before any step of the pipeline: no scan, no query, no
\* update_item, no get_section and no put_object is made, and the table and
\* the bucket are left as they were.
C15_NoStepWithoutConfig ==
    ConfigAbsent
        => /\ calls = <<>>
           /\ marks = <<>>
           /\ puts = <<>>
           /\ table = origTable
           /\ archive = {}
           /\ pc \in {"init", "aborted"}
           /\ pc = "aborted" => err = "KeyError"

\* The run has failed for the bucket name alone, over a table whose incident
\* the pipeline would have taken up.
C15_Witness ==
    /\ pc = "aborted"
    /\ err = "KeyError"
    /\ environ = {"DYNAMO_TABLE", "SEC_API_KEY"}
    /\ Len(table) = 1
    /\ ~Excluded(table[1])
    /\ TenKFilings(filingsDb[table[1].cik]) # {}

(***************************************************************************)
(* C16.  The order of the calls of one run.                                *)
(***************************************************************************)
\* The phase a call belongs to: fetching, resolving, archiving.
PhaseOf(c) ==
    CASE c.op = "scan" -> 1
      [] c.op \in {"get_filings", "update_item"} -> 2
      [] c.op \in {"get_section", "put_object"} -> 3

\* No call of a phase comes after a call of a later phase.
PhasesOrdered ==
    \A m, n \in 1..Len(calls) : m < n => PhaseOf(calls[m]) <= PhaseOf(calls[n])

\* Every update_item comes straight after the query of its own window, or
\* after another update_item of that window, and the query found a 10-K.
WritesFollowMatch ==
    \A n \in 1..Len(calls) :
        calls[n].op = "update_item"
            => /\ n > 1
               /\ calls[n - 1].op \in {"get_filings", "update_item"}
               /\ calls[n - 1].cik = calls[n].cik
               /\ TenKFilings(filingsDb[calls[n].cik]) # {}

\* C16: in every run, every scan comes before the first query, every query
\* before the first get_section and put_object, and the table is written
\* only by the update_item calls that get_10k_urls makes straight after a
\* window's match, hence before any filing of that window is archived.
C16_PhasesOrdered ==
    [][/\ table' # table
            => \E c \in Ciks : calls' = Append(calls, Call("update_item", c))
       /\ PhasesOrdered'
       /\ WritesFollowMatch']_vars

\* A run over two windows with a match has ended: it made calls of every
\* kind and wrote the table.
C16_Witness ==
    /\ pc = "done"
    /\ Len(time_ranges) = 2
    /\ \A n \in 1..2 : TenKFilings(filingsDb[time_ranges[n].cik]) # {}
    /\ {calls[n].op : n \in 1..Len(calls)}
          = {"scan", "get_filings", "update_item", "get_section", "put_object"}
    /\ table # origTable

(***************************************************************************)
(* C17.  What the run writes to the table.                                 *)
(***************************************************************************)
\* C17: every update_item of the run is made for the key (company_name, url)
\* of an incident the table already holds and only sets its scraped
\* attribute to true: no item is added, no other attribute changes and
\* scraped is never reset, also when the incidents of one cik carry
\* different company names.
C17_OnlyFlagsExistingIncidents ==
    /\ \A m \in 1..Len(marks) :
          \E n \in 1..Len(origTable) :
              KeyOf(origTable[n]) = MarkedKey(m)
    /\ Len(table) = Len(origTable)
    /\ \A n \in 1..Len(table) :
          \/ table[n] = origTable[n]
          \/ table[n] = [origTable[n] EXCEPT !.has_scraped = TRUE, !.scraped = TRUE]

(***************************************************************************)
(* C18, C19.  The objects of the bucket.                                   *)
(***************************************************************************)
\* fraudulent/{cik}/{year}.pkl
KeyFor(url_object) ==
    <<"fraudulent", "/", url_object.cik, "/">> \o url_object.year \o <<".pkl">>

\* C18: every ResolvedFiling is written by exactly one put_object, at the key
\* fraudulent/{cik}/{year}.pkl, and no two ResolvedFilings of one run are
\* written to the same key.
C18_OneWritePerKey ==
    /\ \A j \in 1..Len(puts) : puts[j] = KeyFor(urls[j])
    /\ pc = "done" => Len(puts) = Len(urls)
    /\ \A m, n \in 1..Len(puts) : m # n => puts[m] # puts[n]

\* C19: at the end of every run that no external call has failed in, every
\* incident whose scraped attribute the run has set belongs to a cik that
\* has an object under fraudulent/{cik}/ in the bucket.
C19_MarkedImpliesArchived ==
    (run = 1 /\ pc = "done")
        => \A n \in 1..Len(origTable) :
              table[n] # origTable[n]
                  => \E o \in archive :
                        SubSeq(o.Key, 1, 4) = <<"fraudulent", "/", origTable[n].cik, "/">>

====
